---- MODULE Spec2Model ----
(***************************************************************************)
(* Model of shap/plots.py: the interaction ranker approx_interactions      *)
(* (lines 135-167) and the three plotting functions that call it to pick   *)
(* a colouring feature (dependence_plot, joint_plot, interaction_plot).    *)
(*                                                                         *)
(* Matrix entries are integers counted in units of 1e-8 / Eps, so that the *)
(* test  np.sum(np.abs(val_other)) < 1e-8  reads  SumAbs(val_other) < Eps. *)
(* Correlations are scale free; an absolute correlation is kept as a       *)
(* fixed-point number of Scale-ths.                                        *)
(* Row and column indices are 0-based as in the source; sequences are      *)
(* 1-based, so s[k + 1] is the source's s[k].                              *)
(***************************************************************************)
EXTENDS Integers, Sequences, FiniteSets, TLC

\* ---------------------------------------------------------------- bounds
\* Row count above which the rows are subsampled.  The source uses 10000
\* (line 142); the model keeps the comparison and the slice but scales the
\* number down so that both sides of it are explored.
SampleCap == 20
\* How many rows beyond SampleCap the largest input has.
Over == 2
\* Largest number of feature columns.
MaxF == 3
\* Seeds 0..MaxSeed of the global generator.
MaxSeed == 1

\* ------------------------------------------------------ program constants
Bins == 10        \* len(x)/10.0, line 153
MaxInc == 50      \* min(..., 50), line 153
Eps == 12         \* 1e-8 of line 158, in value units
Scale == 100      \* fixed-point unit of np.corrcoef's result, line 164
RngMod == 32      \* state space of the generator behind np.random, line 144

\* ------------------------------------------------------------ arithmetic
Min(a, b) == IF a < b THEN a ELSE b
Abs(a) == IF a < 0 THEN -a ELSE a

RECURSIVE Sum(_)
Sum(s) == IF s = <<>> THEN 0 ELSE Head(s) + Sum(Tail(s))

SumAbs(s) == Sum([k \in 1..Len(s) |-> Abs(s[k])])

Dot(a, b) == Sum([k \in 1..Len(a) |-> a[k] * b[k]])

\* floor of the square root
ISqrt(q) == CHOOSE r \in 0..Scale : r * r <= q /\ q < (r + 1) * (r + 1)

\* ---------------------------------------------------------------- values
None == [tag |-> "none"]
IntVal(k) == [tag |-> "int", val |-> k]

\* a column pattern p gives row r (0-based) the value p[r mod Len(p)]
ColVal(p, r) == p[(r % Len(p)) + 1]

\* an n x Len(pats) matrix whose column c follows pats[c]; the entries are
\* kept by rule, not written out
Matrix(n, pats) == [tag |-> "matrix", n |-> n, f |-> Len(pats), cols |-> pats]

\* M[r, c] for 0 <= r < n, 0 <= c < f
At(M, r, c) == ColVal(M.cols[c + 1], r)

Rot(p, k) == [j \in 1..Len(p) |-> p[((j - 1 + k) % Len(p)) + 1]]

\* numpy column indexing: -f <= c < f is accepted, negative c counts from
\* the end
InRange(M, c) == -M.f <= c /\ c < M.f
Col(M, c) == IF c >= 0 THEN c ELSE c + M.f

\* M[rows, c]
Take(M, rows, c) == [k \in 1..Len(rows) |-> At(M, rows[k], Col(M, c))]

\* s[perm]
Permute(s, perm) == [k \in 1..Len(perm) |-> s[perm[k] + 1]]

\* np.arange(n)
Arange(n) == [k \in 1..n |-> k - 1]

\* ------------------------------------------------------------ np.random
NextRng(s) == (5 * s + 3) % RngMod

\* np.random.shuffle: Fisher-Yates from the last position down, one draw
\* per position
RECURSIVE FisherYates(_, _, _)
FisherYates(a, k, s) ==
    IF k < 1 THEN [a |-> a, rng |-> s]
    ELSE LET s1 == NextRng(s)
             j == s1 % (k + 1)
         IN FisherYates([a EXCEPT ![k + 1] = a[j + 1], ![j + 1] = a[k + 1]],
                        k - 1, s1)

Shuffle(a, s) == FisherYates(a, Len(a) - 1, s)

\* ------------------------------------------------------------ np.argsort
\* Ascending order of the keys.  numpy's sort is a deterministic function
\* of its input; equal keys are kept in index order here.
\* Position p goes behind the positions already placed whose key is not
\* larger.
Insert(keys, placed, p) ==
    LET k == Cardinality({j \in 1..Len(placed) :
                              keys[placed[j] + 1] <= keys[p + 1]})
    IN SubSeq(placed, 1, k) \o <<p>> \o SubSeq(placed, k + 1, Len(placed))

RECURSIVE SortFirst(_, _)
SortFirst(keys, m) ==
    IF m = 0 THEN <<>> ELSE Insert(keys, SortFirst(keys, m - 1), m - 1)

ArgSort(keys) == SortFirst(keys, Len(keys))

\* ------------------------------------------------------- window scoring
\* s[j:j+w]
Window(s, j, w) == SubSeq(s, j + 1, Min(j + w, Len(s)))

\* np.std(w) > 0: the window holds two different values
StdPos(w) == \E a, b \in 1..Len(w) : w[a] # w[b]

\* abs(np.corrcoef(a, b)[0,1]) in Scale-ths, rounded down; a and b have
\* the same length and non-zero variance
AbsCorr(a, b) ==
    LET n == Len(a)
        cab == n * Dot(a, b) - Sum(a) * Sum(b)
        caa == n * Dot(a, a) - Sum(a) * Sum(a)
        cbb == n * Dot(b, b) - Sum(b) * Sum(b)
    IN ISqrt((Scale * Scale * cab * cab) \div (caa * cbb))

\* range(0, n, step) for step > 0
Range(n, step) == {j \in 0..(n - 1) : j % step = 0}

\* the window's correlation added with its sign: abs() left out
WindowTermSigned(ref, other, j, w) ==
    IF StdPos(Window(other, j, w)) /\ StdPos(Window(ref, j, w))
    THEN LET a == Window(ref, j, w)
             b == Window(other, j, w)
         IN IF Len(a) * Dot(a, b) - Sum(a) * Sum(b) < 0
            THEN -AbsCorr(a, b) ELSE AbsCorr(a, b)
    ELSE 0

\* what one window adds to v, lines 163-164
WindowTerm(ref, other, j, w) ==
    IF StdPos(Window(other, j, w)) /\ StdPos(Window(ref, j, w))
    THEN AbsCorr(Window(ref, j, w), Window(other, j, w))
    ELSE 0

\* the inner loop, lines 161-164
WindowSum(ref, other, w) ==
    LET starts == Range(Len(ref), w)
        term[j \in starts] == WindowTerm(ref, other, j, w)
        RECURSIVE Acc(_)
        Acc(S) == IF S = {} THEN 0
                  ELSE LET j == CHOOSE e \in S : TRUE
                       IN term[j] + Acc(S \ {j})
    IN Acc(starts)

\* lines 158-159 without the test i == index
ShortCutNoSelf(feat, target, val_other) ==
    SumAbs(val_other) < Eps

\* lines 158-159 without the test on the sum of absolute values
ShortCutNoSum(feat, target, val_other) ==
    feat = target

\* lines 158-159: the features that are given 0 without walking windows
ShortCut(feat, target, val_other) ==
    feat = target \/ SumAbs(val_other) < Eps

\* rows drawn one by one with replacement instead of shuffled and sliced
RECURSIVE Draws(_, _, _)
Draws(n, k, s) ==
    IF k = 0 THEN [inds |-> <<>>, rng |-> s]
    ELSE LET rest == Draws(n, k - 1, s)
         IN [inds |-> Append(rest.inds, NextRng(rest.rng) % n),
             rng |-> NextRng(rest.rng)]

SampleRowsReplace(n, s) ==
    IF n > SampleCap THEN Draws(n, SampleCap, s)
    ELSE [inds |-> Arange(n), rng |-> s]

\* the shuffle done whatever the row count
SampleRowsAlways(n, s) ==
    LET sh == Shuffle(Arange(n), s)
    IN [inds |-> SubSeq(sh.a, 1, Min(n, SampleCap)), rng |-> sh.rng]

\* lines 142-147: the rows used, and the generator state left behind
SampleRows(n, s) ==
    IF n > SampleCap
    THEN LET sh == Shuffle(Arange(n), s)
         IN [inds |-> SubSeq(sh.a, 1, SampleCap), rng |-> sh.rng]
    ELSE [inds |-> Arange(n), rng |-> s]

\* line 153: inc = min(int(len(x)/10.0), 50)
BinWidth(n) == Min(n \div Bins, MaxInc)

\* line 155: range(X.shape[1])
Features(M) == M.f

\* the sorted keys instead of the positions that sort them
RankValues(scores) ==
    LET keys == [k \in 1..Len(scores) |-> -Abs(scores[k])]
    IN Permute(keys, ArgSort(keys))

\* ascending instead of descending: the negation dropped
RankAscending(scores) == ArgSort([k \in 1..Len(scores) |-> Abs(scores[k])])

\* line 167: np.argsort(-np.abs(interactions))
RankOrder(scores) == ArgSort([k \in 1..Len(scores) |-> -Abs(scores[k])])

\* ----------------------------------------------------------------- state
VARIABLES
    pc,            \* where control is: "plot", "sample", "prepare", "score",
                   \* "done" (approx_interactions returned), "raised",
                   \* "drawn" (the plot has its colouring feature)
    index,         \* approx_interactions' first parameter
    shap_values,   \* its second parameter
    X,             \* its third parameter
    rng,           \* state of the global generator np.random
    inds,          \* line 145/147
    x,             \* line 149
    srt,           \* line 150
    shap_ref,      \* line 152
    inc,           \* line 153
    interactions,  \* line 154
    walked,        \* per appended score, how many windows the inner loop visited
    it,            \* position of the iterator of line 155
    i,             \* the name i, which lines 155 and 162 both assign
    result,        \* the returned order
    error,         \* the exception raised, "none" if none
    plot,          \* the plotting call in progress, None for a direct call
    chosen,        \* the colouring feature the plot ended up with
    calls,         \* how many calls of approx_interactions were started
    first,         \* the order the first call returned
    seed,          \* the seed the generator was given
    reseed         \* whether the generator is seeded again before call 2

params == <<index, shap_values, X>>
locals == <<inds, x, srt, shap_ref, inc, interactions, walked, it, i>>
harness == <<plot, chosen, calls, first, seed, reseed>>
vars == <<pc, params, rng, locals, result, error, harness>>

\* the frame of a call that has not executed anything yet
Fresh ==
    /\ inds = <<>> /\ x = <<>> /\ srt = <<>> /\ shap_ref = <<>>
    /\ inc = 0 /\ interactions = <<>> /\ walked = <<>>
    /\ it = 0 /\ i = 0
    /\ result = <<>> /\ error = "none"

Raise(e) ==
    /\ pc' = "raised"
    /\ error' = e

\* --------------------------------------------------- approx_interactions
\* lines 142-147
Sample ==
    /\ pc = "sample"
    /\ IF X.tag # "matrix"
       THEN /\ Raise("AttributeError")      \* X.shape on a non-array
            /\ UNCHANGED <<rng, inds>>
       ELSE /\ pc' = "prepare"
            /\ inds' = SampleRows(X.n, rng).inds
            /\ rng' = SampleRows(X.n, rng).rng
            /\ UNCHANGED error
    /\ UNCHANGED <<params, x, srt, shap_ref, inc, interactions, walked, it, i,
                   result, harness>>

\* lines 149-154
Prepare ==
    /\ pc = "prepare"
    /\ IF index.tag # "int" \/ ~InRange(X, index.val)
       THEN /\ Raise("IndexError")          \* line 149
            /\ UNCHANGED <<x, srt, shap_ref, inc>>
       ELSE IF \/ shap_values.tag # "matrix"
               \/ ~InRange(shap_values, index.val)
               \/ \E k \in 1..Len(inds) : inds[k] >= shap_values.n
       THEN /\ Raise("IndexError")          \* line 151
            /\ x' = Take(X, inds, index.val)
            /\ srt' = ArgSort(x')
            /\ UNCHANGED <<shap_ref, inc>>
       ELSE /\ pc' = "score"
            /\ x' = Take(X, inds, index.val)
            /\ srt' = ArgSort(x')
            /\ shap_ref' = Permute(Take(shap_values, inds, index.val), srt')
            /\ inc' = BinWidth(Len(x'))
            /\ UNCHANGED error
    /\ UNCHANGED <<params, rng, inds, interactions, walked, it, i, result,
                   harness>>

\* one pass of the loop of line 155, lines 156-165
Score ==
    /\ pc = "score"
    /\ it < Features(X)
    /\ it' = it + 1
    /\ LET val_other == Permute(Take(X, inds, it), srt)
       IN IF ShortCut(it, index.val, val_other)
          THEN /\ interactions' = Append(interactions, 0)
               /\ walked' = Append(walked, 0)
               /\ i' = it
               /\ UNCHANGED <<pc, error>>
          ELSE IF inc = 0
          THEN /\ Raise("ValueError")       \* range() arg 3 must not be zero
               /\ i' = it
               /\ UNCHANGED <<interactions, walked>>
          ELSE /\ interactions' =
                      Append(interactions, WindowSum(shap_ref, val_other, inc))
               /\ walked' = Append(walked, Cardinality(Range(Len(x), inc)))
               /\ i' = CHOOSE j \in Range(Len(x), inc) :
                          \A e \in Range(Len(x), inc) : e <= j
               /\ UNCHANGED <<pc, error>>
    /\ UNCHANGED <<params, rng, inds, x, srt, shap_ref, inc, result, harness>>

\* line 167, once the loop of line 155 is exhausted
Rank ==
    /\ pc = "score"
    /\ it >= Features(X)
    /\ pc' = "done"
    /\ result' = RankOrder(interactions)
    /\ UNCHANGED <<params, rng, locals, error, harness>>

Call == Sample \/ Prepare \/ Score \/ Rank

\* ---------------------------------------------------------------- inputs
Ns == {0, 9, 10} \cup ((SampleCap - 1)..(SampleCap + Over))
Seeds == 0..MaxSeed

XPatterns == {<<0>>, <<1, 0>>, <<3, -3>>, <<0, 1, 3>>}
SPatterns == {<<0>>, <<1, 3>>, <<2, 0, -1>>}

\* a feature matrix, column by column
FeatureMatrices(n, f) == {Matrix(n, ps) : ps \in [1..f -> XPatterns]}
\* an attribution matrix: one pattern, shifted by one row per column
AttributionMatrices(n, f) ==
    {Matrix(n, [c \in 1..f |-> Rot(sp, c - 1)]) : sp \in SPatterns}

\* a call made directly, not from a plotting function
Direct ==
    /\ pc = "sample"
    /\ Fresh
    /\ plot = None /\ chosen = None
    /\ calls = 1 /\ first = <<>> /\ seed = rng

\* a direct call with well-formed arguments: matching shapes, target in
\* [0, F)
Init ==
    /\ \E n \in Ns, f \in 1..MaxF :
          /\ X \in FeatureMatrices(n, f)
          /\ shap_values \in AttributionMatrices(n, f)
          /\ index \in {IntVal(t) : t \in 0..(f - 1)}
          /\ rng \in IF n > SampleCap THEN Seeds ELSE {0}
    /\ Direct
    /\ reseed = FALSE

Next == Call

Spec == Init /\ [][Next]_vars

WellFormed ==
    /\ X.tag = "matrix" /\ shap_values.tag = "matrix" /\ index.tag = "int"
    /\ X.n = shap_values.n /\ X.f = shap_values.f
    /\ 0 <= index.val /\ index.val < X.f

\* ------------------------------------------------- properties under Spec
Elems(s) == {s[k] : k \in 1..Len(s)}
PosOf(s, e) == CHOOSE k \in 1..Len(s) : s[k] = e
Sampled == pc \in {"prepare", "score", "done"}
Scoring == pc \in {"score", "done"}

\* C1: approx_interactions never raises for well-formed input (matching
\* N x F shapes, target in [0, F)), whatever N is and whatever the scores
\* are.
C1_NeverRaises == WellFormed => pc # "raised"

\* C2: the returned sequence has exactly F entries, all distinct, covering
\* every index of [0, F) exactly once.
C2_Permutation ==
    pc = "done" =>
        /\ Len(result) = X.f
        /\ Elems(result) = 0..(X.f - 1)
        /\ \A p, q \in 1..Len(result) : p # q => result[p] # result[q]

C2_Witness ==
    /\ pc = "done" /\ X.f >= 3 /\ X.n > SampleCap
    /\ result # Arange(X.f)

\* C6: the returned order is by descending score: a feature at an earlier
\* position never has a smaller score than one at a later position, and
\* the target (score 0) comes after every feature with a positive score.
C6_Descending ==
    pc = "done" =>
        /\ \A p, q \in 1..Len(result) :
              p < q => interactions[result[p] + 1] >= interactions[result[q] + 1]
        /\ \A f \in 0..(X.f - 1) :
              interactions[f + 1] > 0 =>
                  PosOf(result, f) < PosOf(result, index.val)

C6_Witness ==
    /\ pc = "done"
    /\ \E f, g \in 0..(X.f - 1) :
          /\ f < g
          /\ 0 < interactions[f + 1]
          /\ interactions[f + 1] < interactions[g + 1]
          /\ PosOf(result, g) < PosOf(result, f)
          /\ PosOf(result, f) < PosOf(result, index.val)

\* C7: the score recorded for the target's own index is 0 whatever the
\* data, and it sits at the target's position of the score list: scores are
\* appended in feature order although the window loop reassigns i.
C7_SelfScoreZero ==
    /\ Scoring => Len(interactions) = it
    /\ (Scoring /\ Len(interactions) > index.val) =>
          /\ interactions[index.val + 1] = 0
          /\ walked[index.val + 1] = 0
    /\ pc = "done" => Len(interactions) = X.f

C7_Witness ==
    /\ pc = "done"
    /\ index.val = 1
    /\ interactions[1] > 0
    /\ StdPos(x)
    /\ interactions[index.val + 1] = 0

\* C8: a non-target feature whose sampled values are all zero, or whose sum
\* of absolute values over the sampled rows is below the threshold, scores
\* exactly 0 and no window is walked for it.
C8_DegenerateZero ==
    Scoring =>
        \A f \in 0..(Len(interactions) - 1) :
            (f # index.val /\ SumAbs(Take(X, inds, f)) < Eps) =>
                /\ interactions[f + 1] = 0
                /\ walked[f + 1] = 0

C8_Witness ==
    /\ pc = "done" /\ inc > 0
    /\ \E f, g \in 0..(X.f - 1) :
          /\ f # index.val
          /\ 0 < SumAbs(Take(X, inds, f))
          /\ SumAbs(Take(X, inds, f)) < Eps
          /\ interactions[f + 1] = 0
          /\ Elems(Take(X, inds, g)) = {0}
          /\ g # index.val
          /\ interactions[g + 1] = 0

\* C9: up to SampleCap rows every row is used exactly once; above it,
\* exactly SampleCap row indices are used, all distinct and all in [0, N).
C9_RowSelection ==
    (Sampled \/ (pc = "raised" /\ error # "AttributeError")) =>
        IF X.n <= SampleCap
        THEN /\ Len(inds) = X.n
             /\ Elems(inds) = 0..(X.n - 1)
        ELSE /\ Len(inds) = SampleCap
             /\ \A p, q \in 1..Len(inds) : p # q => inds[p] # inds[q]
             /\ \A p \in 1..Len(inds) : 0 <= inds[p] /\ inds[p] < X.n

C9_Witness ==
    /\ pc = "done" /\ X.n > SampleCap
    /\ Len(inds) = SampleCap
    /\ \E r \in 0..(SampleCap - 1) : r \notin Elems(inds)

\* the windows range(0, len(x), inc) walks over the sampled rows; none
\* while inc is 0
Windows == IF inc > 0 THEN Range(Len(x), inc) ELSE {}

\* the windows in which both the target's attributions and feature f's
\* values vary
Varying(f) ==
    {j \in Windows :
        /\ StdPos(Window(shap_ref, j, inc))
        /\ StdPos(Window(Permute(Take(X, inds, f), srt), j, inc))}

\* C11: every score is non-negative and at most k, the number of windows
\* of width inc the sampled rows are walked in (a correlation of 1 is
\* Scale); only windows in which both series vary add to it, each at most
\* 1.
C11_ScoreBound ==
    Scoring =>
        \A f \in 0..(Len(interactions) - 1) :
            /\ 0 <= interactions[f + 1]
            /\ interactions[f + 1] <= Scale * Cardinality(Windows)
            /\ interactions[f + 1] <= Scale * Cardinality(Varying(f))
            /\ walked[f + 1] \in {0, Cardinality(Windows)}

C11_Witness ==
    /\ pc = "done" /\ inc > 1
    /\ \E f, g \in 0..(X.f - 1) :
          /\ interactions[f + 1] = Scale * Cardinality(Windows)
          /\ 0 < interactions[g + 1]
          /\ interactions[g + 1] < Scale * Cardinality(Windows)
          /\ Varying(g) # Windows

\* =========================================================================
\* Direct calls whose arguments need not be well formed: the two matrices
\* may differ by a row or a column, the target may lie outside [0, F).
\* =========================================================================
NsAny == {Bins, SampleCap, SampleCap + 1}
XPatternsAny == {<<1, 0>>, <<0, 1, 3>>}

InitAny ==
    /\ \E n \in NsAny, f \in 1..MaxF :
       \E ns \in {n - 1, n, n + 1}, fs \in {f - 1, f, f + 1} :
          /\ X \in {Matrix(n, ps) : ps \in [1..f -> XPatternsAny]}
          /\ shap_values \in AttributionMatrices(ns, fs)
          /\ index \in {IntVal(t) : t \in (-(f + 1))..f}
          /\ rng \in IF n > SampleCap THEN Seeds ELSE {0}
    /\ Direct
    /\ reseed = FALSE

SpecAny == InitAny /\ [][Next]_vars

ShapeMismatch == X.n # shap_values.n \/ X.f # shap_values.f
TargetInRange == 0 <= index.val /\ index.val < X.f

\* C3: when the two matrices differ in row count or in column count the
\* call fails, and it fails before any feature is scored; it never returns
\* a ranking.
C3_MismatchRejected ==
    (ShapeMismatch /\ TargetInRange) =>
        /\ pc # "done"
        /\ pc = "raised" => it = 0 /\ interactions = <<>>

\* C4: for every target index outside [0, F) the call fails with an index
\* error and returns no ranking.
C4_TargetRejected ==
    (~ShapeMismatch /\ ~TargetInRange) =>
        /\ pc # "done"
        /\ pc = "raised" => error = "IndexError"

\* =========================================================================
\* The plotting functions that pick their colouring feature.
\* =========================================================================
PlotFns == {"dependence_plot", "joint_plot", "interaction_plot"}

\* the names bound at module level: the imports of lines 1-12, the
\* assignments of lines 14-23 and the defs
ModuleNames ==
    {"warnings", "gaussian_kde", "Instance", "Model", "AdditiveExplanation",
     "IdentityLink", "DenseData", "iml", "np", "pl", "LinearSegmentedColormap",
     "cdict1", "red_blue", "dependence_plot", "approx_interactions",
     "summary_plot", "visualize", "joint_plot", "interaction_plot", "plot"}

\* the call each function makes when it has to pick the feature itself:
\* the name called, the arguments in the order written, and the entry of
\* the returned order that is used (lines 89, 403, 462)
CallSite(fn) ==
    CASE fn = "dependence_plot" ->
           [callee |-> "approx_interactions",
            args |-> <<"ind", "shap", "features">>, pick |-> 0]
      [] fn = "joint_plot" ->
           [callee |-> "interactions",
            args |-> <<"features", "shap", "ind">>, pick |-> plot.other_auto_ind]
      [] fn = "interaction_plot" ->
           [callee |-> "approx_interactions",
            args |-> <<"features", "shap", "ind">>, pick |-> 0]

ArgValue(role) ==
    CASE role = "ind" -> IntVal(plot.ind)
      [] role = "shap" -> plot.shap
      [] role = "features" -> plot.features

\* lines 88-89, 402-403, 461-462: keep the feature the caller named, or
\* call the ranker; the arguments are bound by position to
\* (index, shap_values, X)
PlotSelect ==
    /\ pc = "plot"
    /\ IF ~plot.auto
       THEN /\ pc' = "drawn"
            /\ chosen' = plot.given
            /\ UNCHANGED <<params, error>>
       ELSE IF CallSite(plot.fn).callee \notin ModuleNames
       THEN /\ Raise("NameError")
            /\ UNCHANGED <<params, chosen>>
       ELSE /\ pc' = "sample"
            /\ index' = ArgValue(CallSite(plot.fn).args[1])
            /\ shap_values' = ArgValue(CallSite(plot.fn).args[2])
            /\ X' = ArgValue(CallSite(plot.fn).args[3])
            /\ UNCHANGED <<chosen, error>>
    /\ UNCHANGED <<rng, locals, result, plot, calls, first, seed, reseed>>

\* the subscript applied to the returned order
PlotResume ==
    /\ pc = "done"
    /\ plot # None
    /\ IF CallSite(plot.fn).pick < Len(result)
       THEN /\ pc' = "drawn"
            /\ chosen' = IntVal(result[CallSite(plot.fn).pick + 1])
            /\ UNCHANGED error
       ELSE /\ Raise("IndexError")
            /\ UNCHANGED chosen
    /\ UNCHANGED <<params, rng, locals, result, plot, calls, first, seed, reseed>>

NsPlots == {Bins, SampleCap}

InitPlots ==
    /\ pc = "plot"
    /\ \E n \in NsPlots, f \in 1..MaxF :
          plot \in [fn : PlotFns,
                    ind : 0..(f - 1),
                    features : FeatureMatrices(n, f),
                    shap : AttributionMatrices(n, f),
                    auto : BOOLEAN,
                    given : {IntVal(t) : t \in 0..(f - 1)},
                    other_auto_ind : {0}]
    /\ index = None /\ shap_values = None /\ X = None
    /\ rng = 0
    /\ Fresh
    /\ chosen = None
    /\ calls = 0 /\ first = <<>> /\ seed = rng /\ reseed = FALSE

NextPlots == PlotSelect \/ Call \/ PlotResume

SpecPlots == InitPlots /\ [][NextPlots]_vars

\* C5: every plotting function that picks its colouring feature itself
\* calls approx_interactions with (target index, attribution matrix,
\* feature matrix), in that order, and uses an entry of the order returned.
C5_CallsRanker ==
    (plot # None /\ plot.auto /\ pc # "plot") =>
        /\ error # "NameError"
        /\ index = IntVal(plot.ind)
        /\ shap_values = plot.shap
        /\ X = plot.features
        /\ pc = "drawn" => chosen.val \in Elems(result)

\* =========================================================================
\* Two calls in a row with the same arguments.
\* =========================================================================
\* the second call: same arguments, the generator either left as the first
\* call left it or seeded again with the same seed
CallAgain ==
    /\ pc = "done"
    /\ plot = None
    /\ calls = 1
    /\ calls' = 2
    /\ first' = result
    /\ rng' = IF reseed THEN seed ELSE rng
    /\ pc' = "sample"
    /\ inds' = <<>> /\ x' = <<>> /\ srt' = <<>> /\ shap_ref' = <<>>
    /\ inc' = 0 /\ interactions' = <<>> /\ walked' = <<>>
    /\ it' = 0 /\ i' = 0
    /\ result' = <<>>
    /\ UNCHANGED <<params, error, plot, chosen, seed, reseed>>

NsTwice == {Bins} \cup (SampleCap..(SampleCap + Over))
XPatternsTwice == {<<1, 0>>, <<3, -3>>, <<0, 1, 3>>}

InitTwice ==
    /\ \E n \in NsTwice, f \in 1..MaxF :
          /\ X \in {Matrix(n, ps) : ps \in [1..f -> XPatternsTwice]}
          /\ shap_values \in AttributionMatrices(n, f)
          /\ index \in {IntVal(t) : t \in 0..(f - 1)}
          /\ rng \in Seeds
          /\ reseed \in BOOLEAN
    /\ Direct

NextTwice == Call \/ CallAgain

SpecTwice == InitTwice /\ [][NextTwice]_vars

BothReturned == calls = 2 /\ pc = "done"

\* C10 as stated: two calls with the same seeded generator and the same
\* arguments return the same order, whatever N is.
C10_SameOrderAlways == BothReturned => result = first

\* C10: two calls with the same arguments return the same order when no
\* subsampling takes place (N <= SampleCap), and when the generator is
\* seeded again with the same seed before the second call.
C10_SameOrder ==
    (BothReturned /\ (X.n <= SampleCap \/ reseed)) => result = first

C10_Witness ==
    /\ BothReturned
    /\ X.n > SampleCap /\ reseed
    /\ result = first
    /\ result # Arange(X.f)

====
